---- MODULE Spec2Model ----
(***************************************************************************)
(* time-since-deploy: a one-shot report of the time since the last         *)
(* production deployment of every "prod/<service>" environment of one      *)
(* GitLab project (src/main.go).                                           *)
(*                                                                         *)
(* main runs three steps in sequence: getProjectPid, getEnvs, getDrifts.   *)
(* getDrifts starts one goroutine per environment entry and joins them     *)
(* with a sync.WaitGroup.  The remote API is a black box: every response   *)
(* is drawn from a small set when the request is made.                     *)
(*                                                                         *)
(* Strings that the code takes apart (environment names) are sequences of  *)
(* one-character strings; other strings are TLA+ strings.                  *)
(***************************************************************************)
EXTENDS Integers, Sequences, FiniteSets

VARIABLES
    pc,         \* where main is: "getProjectPid", "getEnvs", "getDrifts",
                \* "loop", "wait", or ended: "exit0", "fatal", "panic"
    projResp,   \* what Projects.ListProjects answered (NoResp before)
    pid,        \* main's pid
    pidErr,     \* the error getProjectPid returned ("" is nil)
    page,       \* getEnvs: page
    requested,  \* the pages getEnvs asked for, in request order
    served,     \* the successful ListEnvironments answers, in request order
    allEnvs,    \* getEnvs: allEnvs
    envsErr,    \* the error getEnvs returned ("" is nil)
    envDeps,    \* main's envDeps
    task,       \* the goroutines getDrifts has started, in start order
    wg,         \* the WaitGroup's counter
    stdout,     \* the lines written to standard output
    stderr      \* the lines written by package log

vars == <<pc, projResp, pid, pidErr, page, requested, served, allEnvs,
          envsErr, envDeps, task, wg, stdout, stderr>>

----------------------------------------------------------------------------
(* Bounds of the model.                                                    *)

MaxProjects == 2    \* projects in one ListProjects answer
MaxEnvs == 2        \* environments listed in one run, over all pages
MaxRequests == 3    \* ListEnvironments requests in one run
MaxPage == 2        \* the largest page number the upstream names as next

(* The page size getEnvs asks for.                                         *)
perPage == 20

ProjectIDs == {7, 8}
EnvIDs == {1, 2}

(* Environment names: "p/a"; "p/" (empty second part); "/a" (empty first   *)
(* part); "p" (one part); "p/a/b" (three parts).                           *)
EnvNames ==
    { <<"p", "/", "a">>, <<"p", "/">>, <<"/", "a">>, <<"p">>,
      <<"p", "/", "a", "/", "b">> }

Nil == "nil"
NoResp == [kind |-> "none"]

Min(a, b) == IF a < b THEN a ELSE b

SeqsUpTo(S, n) == UNION { [1..k -> S] : k \in 0..n }

----------------------------------------------------------------------------
(* The upstream's answers.                                                 *)

Projects == [ID : ProjectIDs]

ListProjectsResponses ==
    { [kind |-> "projects", err |-> TRUE, ps |-> <<>>] }
    \cup { [kind |-> "projects", err |-> FALSE, ps |-> s] :
             s \in SeqsUpTo(Projects, MaxProjects) }

Environments == [Name : EnvNames, ID : EnvIDs]

(* The answers to the next ListEnvironments request: at most perPage       *)
(* environments, and a next page (0: none).                                *)
ListEnvironmentsResponses ==
    { [err |-> TRUE, envs |-> <<>>, NextPage |-> 0] }
    \cup { [err |-> FALSE, envs |-> s, NextPage |-> n] :
             s \in SeqsUpTo(Environments,
                            Min(perPage, MaxEnvs - Len(allEnvs))),
             n \in { m \in 0..MaxPage :
                       m = 0 \/ Len(requested) + 1 < MaxRequests } }

(* The answers to GetEnvironment: an error; an environment with no         *)
(* LastDeployment; or one with a LastDeployment, whose                     *)
(* Deployable.FinishedAt and Deployable.Commit are pointers (Nil: absent). *)
FinishTimes == {"2021-10-25T20:12:05Z"}
ShortIDs == {"abc1234"}

GetEnvironmentResponses ==
    { [kind |-> "error"], [kind |-> "nodeployment"] }
    \cup { [kind |-> "deployment", FinishedAt |-> f, Commit |-> c] :
             f \in FinishTimes \cup {Nil}, c \in ShortIDs \cup {Nil} }

----------------------------------------------------------------------------
(* getProjectPid (main.go:151-171): the identifier and the error it        *)
(* returns for an answer of ListProjects.                                  *)

(* getProjectPid without the check for several matches: it takes the first.*)
getProjectPid_TakesFirst(resp) ==
    IF resp.err
      THEN [id |-> 0, err |-> "listing projects"]
    ELSE IF Len(resp.ps) < 1
      THEN [id |-> 0, err |-> "no projects matched"]
    ELSE [id |-> resp.ps[1].ID, err |-> ""]

getProjectPid(resp) ==
    IF resp.err
      THEN [id |-> 0, err |-> "listing projects"]
    ELSE IF Len(resp.ps) > 1
      THEN [id |-> 0, err |-> "too many projects matched"]
    ELSE IF Len(resp.ps) < 1
      THEN [id |-> 0, err |-> "no projects matched"]
    ELSE [id |-> resp.ps[1].ID, err |-> ""]

----------------------------------------------------------------------------
(* strings.Split(s, "/"): the parts of s between the separators; a string  *)
(* with n separators has n + 1 parts, empty ones included.                 *)

RECURSIVE Split(_)
Split(s) ==
    IF \A k \in 1..Len(s) : s[k] # "/"
      THEN <<s>>
      ELSE LET i == CHOOSE k \in 1..Len(s) :
                      s[k] = "/" /\ \A j \in 1..(k - 1) : s[j] # "/"
           IN  <<SubSeq(s, 1, i - 1)>> \o Split(SubSeq(s, i + 1, Len(s)))

(* The second loop of getEnvs taking parts[0] for the display name.        *)
RECURSIVE servDeps_FirstPart(_)
servDeps_FirstPart(envs) ==
    IF envs = <<>>
      THEN <<>>
      ELSE LET env == Head(envs)
               parts == Split(env.Name)
           IN  IF Len(parts) # 2
                 THEN servDeps_FirstPart(Tail(envs))
                 ELSE <<[Name |-> parts[1], Prod |-> env.ID]>>
                      \o servDeps_FirstPart(Tail(envs))

(* The second loop of getEnvs also skipping a name with an empty part.     *)
RECURSIVE servDeps_NonEmptyParts(_)
servDeps_NonEmptyParts(envs) ==
    IF envs = <<>>
      THEN <<>>
      ELSE LET env == Head(envs)
               parts == Split(env.Name)
           IN  IF Len(parts) # 2 \/ parts[1] = <<>> \/ parts[2] = <<>>
                 THEN servDeps_NonEmptyParts(Tail(envs))
                 ELSE <<[Name |-> parts[2], Prod |-> env.ID]>>
                      \o servDeps_NonEmptyParts(Tail(envs))

(* The second loop of getEnvs (main.go:136-146).                           *)
RECURSIVE servDeps(_)
servDeps(envs) ==
    IF envs = <<>>
      THEN <<>>
      ELSE LET env == Head(envs)
               parts == Split(env.Name)
           IN  IF Len(parts) # 2
                 THEN servDeps(Tail(envs))
                 ELSE <<[Name |-> parts[2], Prod |-> env.ID]>>
                      \o servDeps(Tail(envs))

(* allEnvs = envs: the page replaces what was collected.                   *)
appendEnvs_Overwrite(all, envs) == envs

(* allEnvs = append(allEnvs, envs...) (main.go:131).                       *)
appendEnvs(all, envs) == all \o envs

(* page = r.NextPage (main.go:133).                                        *)
nextPage(cur, resp) == resp.NextPage

(* main going on to getDrifts whatever getEnvs returned.                   *)
afterGetEnvs_IgnoresErr(err) == "getDrifts"

(* main after getProjectPid (main.go:56-59) and after getEnvs              *)
(* (main.go:61-64): log.Fatalf on an error.                                *)
afterGetProjectPid(err) == IF err # "" THEN "fatal" ELSE "getEnvs"
afterGetEnvs(err) == IF err # "" THEN "fatal" ELSE "getDrifts"

----------------------------------------------------------------------------
(* getDrift (main.go:91-109) for entry ed and the answer resp: whether it  *)
(* panics on a nil pointer, the lines it prints and the error it returns.  *)

Header == [line |-> "SERVICE           | SHORT SHA | LAST DEPLOY"]

(* fmt.Printf("%-18s| %s  | %s\n", ed.Name, ShortID, dd): the elapsed time *)
(* is formatted from FinishedAt.                                           *)
Row(ed, resp) ==
    [svc |-> ed.Name, sha |-> resp.Commit, since |-> resp.FinishedAt]

(* getDrift returning an error for an environment never deployed to.      *)
getDrift_NoDeploymentFails(ed, resp) ==
    IF resp.kind = "error"
      THEN [panic |-> FALSE, out |-> <<>>, err |-> "get prod environment"]
    ELSE IF resp.kind = "nodeployment"
      THEN [panic |-> FALSE, out |-> <<>>, err |-> "no deployment"]
    ELSE IF resp.FinishedAt = Nil \/ resp.Commit = Nil
      THEN [panic |-> TRUE, out |-> <<>>, err |-> ""]
    ELSE [panic |-> FALSE, out |-> <<Row(ed, resp)>>, err |-> ""]

getDrift(ed, resp) ==
    IF resp.kind = "error"
      THEN [panic |-> FALSE, out |-> <<>>, err |-> "get prod environment"]
    ELSE IF resp.kind = "nodeployment"
      THEN [panic |-> FALSE, out |-> <<>>, err |-> ""]
    ELSE IF resp.FinishedAt = Nil \/ resp.Commit = Nil
      THEN [panic |-> TRUE, out |-> <<>>, err |-> ""]
    ELSE [panic |-> FALSE, out |-> <<Row(ed, resp)>>, err |-> ""]

(* getDrifts without the wg.Wait().                                        *)
waitDone_NoBarrier(counter) == TRUE

(* wg.Wait() returns when the counter is zero (main.go:87).                *)
waitDone(counter) == counter = 0

(* The goroutine reading the loop variable after the loop has moved on to  *)
(* the last entry, instead of taking the entry as its argument.            *)
goArg_LoopVariable(deps, i) == deps[Len(deps)]

(* The goroutine's argument: go func(ed EnvDep) {...}(envDep)              *)
(* (main.go:77-83).                                                        *)
goArg(deps, i) == deps[i]

Running == pc \in {"loop", "wait"}

----------------------------------------------------------------------------
Init ==
    /\ pc = "getProjectPid"
    /\ projResp = NoResp
    /\ pid = 0
    /\ pidErr = ""
    /\ page = 1
    /\ requested = <<>>
    /\ served = <<>>
    /\ allEnvs = <<>>
    /\ envsErr = ""
    /\ envDeps = <<>>
    /\ task = <<>>
    /\ wg = 0
    /\ stdout = <<>>
    /\ stderr = <<>>

(* main.go:56-59: pid, err := getProjectPid(c).                            *)
ResolveProject ==
    /\ pc = "getProjectPid"
    /\ \E resp \in ListProjectsResponses :
         LET res == getProjectPid(resp)
         IN  /\ projResp' = resp
             /\ pid' = res.id
             /\ pidErr' = res.err
             /\ pc' = afterGetProjectPid(res.err)
             /\ stderr' = IF afterGetProjectPid(res.err) = "fatal"
                            THEN Append(stderr, <<"get project pid", res.err>>)
                            ELSE stderr
    /\ UNCHANGED <<page, requested, served, allEnvs, envsErr, envDeps,
                   task, wg, stdout>>

(* One iteration of the page loop of getEnvs (main.go:117-134); the        *)
(* iteration that reads NextPage = 0 leaves the loop, derives the entries  *)
(* (main.go:136-148) and returns to main (main.go:61-64).                  *)
ListPage ==
    /\ pc = "getEnvs"
    /\ page # 0
    /\ \E resp \in ListEnvironmentsResponses :
         /\ requested' = Append(requested, page)
         /\ IF resp.err
              THEN /\ envsErr' = "list environments"
                   /\ pc' = afterGetEnvs("list environments")
                   /\ envDeps' = IF afterGetEnvs("list environments") = "fatal"
                                   THEN envDeps
                                   ELSE servDeps(allEnvs)
                   /\ stderr' =
                        IF afterGetEnvs("list environments") = "fatal"
                          THEN Append(stderr,
                                      <<"get envs", "list environments">>)
                          ELSE stderr
                   /\ UNCHANGED <<served, allEnvs, page>>
              ELSE /\ served' = Append(served, resp)
                   /\ allEnvs' = appendEnvs(allEnvs, resp.envs)
                   /\ page' = nextPage(page, resp)
                   /\ IF page' = 0
                        THEN /\ envDeps' = servDeps(allEnvs')
                             /\ pc' = afterGetEnvs("")
                        ELSE UNCHANGED <<envDeps, pc>>
                   /\ UNCHANGED <<envsErr, stderr>>
    /\ UNCHANGED <<projResp, pid, pidErr, task, wg, stdout>>

(* main calls getDrifts, which prints the header (main.go:66, 74).  The    *)
(* frame of getEnvs is gone by now: its locals, and the record of its      *)
(* requests, leave the state.                                              *)
PrintHeader ==
    /\ pc = "getDrifts"
    /\ stdout' = Append(stdout, Header)
    /\ pc' = "loop"
    /\ page' = 0
    /\ requested' = <<>>
    /\ served' = <<>>
    /\ allEnvs' = <<>>
    /\ UNCHANGED <<projResp, pid, pidErr, envsErr, envDeps, task, wg, stderr>>

(* One iteration of the loop of getDrifts (main.go:75-85): wg.Add(1) and   *)
(* a new goroutine for the next entry.                                     *)
Spawn ==
    /\ pc = "loop"
    /\ Len(task) < Len(envDeps)
    /\ wg' = wg + 1
    /\ task' = Append(task, [ed |-> goArg(envDeps, Len(task) + 1),
                             pc |-> "running", resp |-> NoResp, err |-> ""])
    /\ UNCHANGED <<pc, projResp, pid, pidErr, page, requested, served,
                   allEnvs, envsErr, envDeps, stdout, stderr>>

(* The loop of getDrifts ends; main blocks in wg.Wait() (main.go:87).      *)
LoopEnd ==
    /\ pc = "loop"
    /\ Len(task) = Len(envDeps)
    /\ pc' = "wait"
    /\ UNCHANGED <<projResp, pid, pidErr, page, requested, served, allEnvs,
                   envsErr, envDeps, task, wg, stdout, stderr>>

(* wg.Wait() returns, getDrifts returns nil and main returns               *)
(* (main.go:87-88, 66-69): the process exits with status 0.                *)
WaitReturn ==
    /\ pc = "wait"
    /\ waitDone(wg)
    /\ pc' = "exit0"
    /\ UNCHANGED <<projResp, pid, pidErr, page, requested, served, allEnvs,
                   envsErr, envDeps, task, wg, stdout, stderr>>

(* Goroutine i calls getDrift (main.go:80, 91-109).  A nil pointer         *)
(* dereference panics: the runtime ends the process with status 2.         *)
GetDrift(i) ==
    /\ Running
    /\ task[i].pc = "running"
    /\ \E resp \in GetEnvironmentResponses :
         LET res == getDrift(task[i].ed, resp)
         IN  IF res.panic
               THEN /\ pc' = "panic"
                    /\ task' = [task EXCEPT ![i].resp = resp]
                    /\ stderr' = Append(stderr,
                                         <<"panic", "nil pointer dereference">>)
                    /\ UNCHANGED stdout
               ELSE /\ task' = [task EXCEPT ![i].pc = "returned",
                                            ![i].resp = resp,
                                            ![i].err = res.err]
                    /\ stdout' = stdout \o res.out
                    /\ UNCHANGED <<pc, stderr>>
    /\ UNCHANGED <<projResp, pid, pidErr, page, requested, served, allEnvs,
                   envsErr, envDeps, wg>>

(* Goroutine i logs the error of getDrift, if any, and ends: the deferred  *)
(* wg.Done() (main.go:78-82).                                              *)
TaskDone(i) ==
    /\ Running
    /\ task[i].pc = "returned"
    /\ stderr' = IF task[i].err # ""
                   THEN Append(stderr,
                               <<"get drift", task[i].ed.Name, task[i].err>>)
                   ELSE stderr
    /\ wg' = wg - 1
    /\ task' = [task EXCEPT ![i].pc = "done"]
    /\ UNCHANGED <<pc, projResp, pid, pidErr, page, requested, served,
                   allEnvs, envsErr, envDeps, stdout>>

Next ==
    \/ ResolveProject
    \/ ListPage
    \/ PrintHeader
    \/ Spawn
    \/ LoopEnd
    \/ WaitReturn
    \/ \E i \in DOMAIN task : GetDrift(i)
    \/ \E i \in DOMAIN task : TaskDone(i)

Spec == Init /\ [][Next]_vars

----------------------------------------------------------------------------
(* What the properties below speak of.                                     *)

(* The status the process ends with: 0 when main returns, 1 after          *)
(* log.Fatalf, 2 after a panic; -1 while it runs.                          *)
ExitStatus ==
    CASE pc = "exit0" -> 0
      [] pc = "fatal" -> 1
      [] pc = "panic" -> 2
      [] OTHER -> -1

(* getEnvs has returned its entries to main and main has not gone on yet.  *)
EnvsReturned == pc = "getDrifts"

Count(seq, x) == Cardinality({ k \in DOMAIN seq : seq[k] = x })

RECURSIVE ConcatPages(_)
ConcatPages(pages) ==
    IF pages = <<>> THEN <<>>
    ELSE Head(pages).envs \o ConcatPages(Tail(pages))

Slashes(name) == { k \in DOMAIN name : name[k] = "/" }
OneSlash(env) == Cardinality(Slashes(env.Name)) = 1
AfterSlash(name) ==
    LET i == CHOOSE k \in Slashes(name) : TRUE
    IN  SubSeq(name, i + 1, Len(name))

(* What task i has learnt from its fetch.                                   *)
HasDeployment(i) == task[i].resp.kind = "deployment"
FetchFailed(i) == task[i].resp.kind = "error"
Malformed(i) ==
    /\ task[i].resp.kind = "deployment"
    /\ (task[i].resp.FinishedAt = Nil \/ task[i].resp.Commit = Nil)
LogLine(i) == <<"get drift", envDeps[i].Name, "get prod environment">>

----------------------------------------------------------------------------
(* C1: whenever the project search answers with a list, the resolver fails *)
(* on an empty list, succeeds with the identifier of the only project on a *)
(* list of one, and fails on a list of two or more, returning none of      *)
(* their identifiers.                                                      *)
C1_ProjectResolution ==
    (projResp.kind = "projects" /\ ~projResp.err) =>
        /\ Len(projResp.ps) = 0 =>
             (pidErr # "" /\ pid = 0 /\ pc = "fatal")
        /\ Len(projResp.ps) = 1 =>
             (pidErr = "" /\ pid = projResp.ps[1].ID)
        /\ Len(projResp.ps) >= 2 =>
             /\ pidErr # ""
             /\ pc = "fatal"
             /\ \A k \in DOMAIN projResp.ps : pid # projResp.ps[k].ID

C1_Witness ==
    /\ projResp.kind = "projects"
    /\ ~projResp.err
    /\ Len(projResp.ps) = 2
    /\ projResp.ps[1] # projResp.ps[2]
    /\ pc = "fatal"

(* C2: the lister asks for page 1 first and then for the page each answer  *)
(* names as next, until an answer names none; when every request succeeds  *)
(* the environments collected are the answers' environments concatenated   *)
(* in request order.                                                       *)
C2_Pagination ==
    /\ requested # <<>> => requested[1] = 1
    /\ \A k \in 2..Len(requested) :
         /\ served[k - 1].NextPage # 0
         /\ requested[k] = served[k - 1].NextPage
    /\ pc = "getEnvs" =>
         /\ Len(served) = Len(requested)
         /\ page = IF served = <<>> THEN 1 ELSE served[Len(served)].NextPage
         /\ page # 0
         /\ allEnvs = ConcatPages(served)
    /\ EnvsReturned =>
         /\ Len(served) = Len(requested)
         /\ served # <<>>
         /\ served[Len(served)].NextPage = 0
         /\ allEnvs = ConcatPages(served)

C2_Witness ==
    /\ EnvsReturned
    /\ Len(requested) = 2
    /\ served[1].envs # <<>>
    /\ served[2].envs # <<>>
    /\ served[1].envs # served[2].envs

(* C3: the entries getEnvs returns are, in listing order, one per listed   *)
(* environment whose name holds exactly one '/', with the text after the   *)
(* '/' as display name and the environment's identifier; the other         *)
(* environments give no entry and no error.                                *)
C3_NameDerivation ==
    EnvsReturned =>
        LET kept == SelectSeq(allEnvs, OneSlash)
        IN  /\ envsErr = ""
            /\ Len(envDeps) = Len(kept)
            /\ \A k \in DOMAIN kept :
                 envDeps[k] = [Name |-> AfterSlash(kept[k].Name),
                               Prod |-> kept[k].ID]

C3_Witness ==
    /\ EnvsReturned
    /\ Len(allEnvs) = 2
    /\ Len(envDeps) = 1
    /\ envDeps[1].Name = <<"a">>
    /\ allEnvs[1].Name = <<"p", "/", "a", "/", "b">>

(* C4 (as claimed): once the run has reached the drift reporter and ended, *)
(* it ended with status 0, every task whose fetch succeeded and showed a   *)
(* last deployment has printed its row, and every task whose fetch failed  *)
(* has logged one line with its service name.                              *)
C4_FailureIsolation ==
    pc \in {"exit0", "panic"} =>
        /\ ExitStatus = 0
        /\ \A i \in DOMAIN task :
             /\ HasDeployment(i) =>
                  Count(stdout, Row(envDeps[i], task[i].resp)) >= 1
             /\ FetchFailed(i) => Count(stderr, LogLine(i)) >= 1

(* C5: when the reporter waits, one task has been started for every entry, *)
(* each with its own entry; the counter of the barrier is the number of    *)
(* tasks not yet finished; and getDrifts has returned only when every task *)
(* has finished.                                                           *)
C5_JoinBarrier ==
    /\ pc \in {"wait", "exit0"} =>
         /\ Len(task) = Len(envDeps)
         /\ \A i \in DOMAIN task : task[i].ed = envDeps[i]
    /\ pc \in {"loop", "wait", "exit0"} =>
         wg = Cardinality({ i \in DOMAIN task : task[i].pc # "done" })
    /\ pc = "exit0" => \A i \in DOMAIN task : task[i].pc = "done"

C5_Witness ==
    /\ pc = "exit0"
    /\ Len(task) = 2
    /\ \E i \in DOMAIN task : FetchFailed(i)
    /\ \E i \in DOMAIN task : HasDeployment(i)

(* C6: the step in which a task learns that its environment has no last    *)
(* deployment writes nothing to standard output or the log and returns     *)
(* nil, and the step that ends that task logs nothing.                     *)
C6_NeverDeployed ==
    [][\A i \in DOMAIN task :
         /\ ( /\ task[i].pc = "running"
              /\ task'[i].resp.kind = "nodeployment" ) =>
                /\ stdout' = stdout
                /\ stderr' = stderr
                /\ task'[i].pc = "returned"
                /\ task'[i].err = ""
         /\ ( /\ task[i].pc = "returned"
              /\ task[i].resp.kind = "nodeployment"
              /\ task'[i].pc = "done" ) =>
                /\ stdout' = stdout
                /\ stderr' = stderr]_vars

C6_Witness ==
    /\ pc = "exit0"
    /\ Len(task) = 1
    /\ task[1].resp.kind = "nodeployment"
    /\ stdout = <<Header>>
    /\ stderr = <<>>

(* C7: if the project resolution or a page fetch of the listing has        *)
(* failed, main holds no entries, no task has been started, nothing has    *)
(* been written to standard output, and the run has ended with a non-zero  *)
(* status.                                                                 *)
C7_FatalErrors ==
    (pidErr # "" \/ envsErr # "") =>
        /\ envDeps = <<>>
        /\ task = <<>>
        /\ wg = 0
        /\ stdout = <<>>
        /\ ExitStatus = 1

C7_Witness ==
    /\ envsErr # ""
    /\ Len(requested) = 2
    /\ Len(served) = 1
    /\ servDeps(allEnvs) # <<>>
    /\ pc = "fatal"

(* C8 (as claimed): every entry getEnvs returns has a non-empty display    *)
(* name, and the entries are as many as the listed environments whose name *)
(* splits into exactly two non-empty parts.                                *)
C8_NonEmptyParts ==
    EnvsReturned =>
        /\ \A k \in DOMAIN envDeps : envDeps[k].Name # <<>>
        /\ Len(envDeps) =
             Cardinality({ j \in DOMAIN allEnvs :
                             LET parts == Split(allEnvs[j].Name)
                             IN  /\ Len(parts) = 2
                                 /\ parts[1] # <<>>
                                 /\ parts[2] # <<>> })

(* C8 (amended): every listed environment whose name splits into exactly   *)
(* two parts gives an entry, an empty part or not: the entry of a name     *)
(* ending in '/' has the empty display name, and a name starting with '/'  *)
(* gives an entry too; the entries are as many as those environments.      *)
C8_TwoPartsEmptyOrNot ==
    EnvsReturned =>
        /\ \A j \in DOMAIN allEnvs :
             LET parts == Split(allEnvs[j].Name)
             IN  Len(parts) = 2 =>
                   \E k \in DOMAIN envDeps :
                      envDeps[k] = [Name |-> parts[2], Prod |-> allEnvs[j].ID]
        /\ Len(envDeps) =
             Cardinality({ j \in DOMAIN allEnvs :
                             Len(Split(allEnvs[j].Name)) = 2 })

C8_Witness ==
    /\ EnvsReturned
    /\ allEnvs = << [Name |-> <<"p", "/">>, ID |-> 1],
                    [Name |-> <<"/", "a">>, ID |-> 2] >>
    /\ envDeps = << [Name |-> <<>>, Prod |-> 1],
                    [Name |-> <<"a">>, Prod |-> 2] >>

(* C9 (as claimed): a task whose environment has a last deployment with no *)
(* finish time or no commit does not end the process; once that task has   *)
(* finished, its failure is in the log with its service name.              *)
C9_MalformedDeployment ==
    \A i \in DOMAIN task :
        Malformed(i) =>
            /\ pc # "panic"
            /\ task[i].pc = "done" =>
                 \E k \in DOMAIN stderr :
                    stderr[k][1] = "get drift" /\ stderr[k][2] = envDeps[i].Name

====
